---------------------------- MODULE Spec2Model ----------------------------
(***************************************************************************)
(* A model of docstring2argparse (src/src/docstring2argparse/__init__.py): *)
(* the two metadata extractors, the union merge, the discovery walk, the   *)
(* command-tree build and the dispatch.                                    *)
(*                                                                         *)
(* Python values are tagged records [t |-> <type name>, v |-> <payload>],  *)
(* so that type(x), x == y, len(x) and hasattr(x, '__len__') can be        *)
(* computed as Python computes them.  A str is a sequence of one-character *)
(* strings; an exception that leaves a function is the value Raise(name).  *)
(***************************************************************************)
EXTENDS Integers, Sequences, FiniteSets, TLC

VARIABLES
    \* union applied to drawn values
    upc, uA, uB, uAB, uBA, uAN, uNA, uAA,
    \* the package under test and the caller's errskip
    wlinks, wkinds, errskip,
    \* get_functions_raw
    pc, exc, mods, mods_done, ans, c, ansd, pi, last, ans_f, ans_m,
    \* docstringparser
    p, ps, made, bi,
    \* the parsed command line and run_args
    argv, args, calls, ret

uvars == <<upc, uA, uB, uAB, uBA, uAN, uNA, uAA>>
wvars == <<wlinks, wkinds, errskip>>
dvars == <<mods, mods_done, ans, c, ansd, pi, last, ans_f, ans_m>>
bvars == <<p, ps, made, bi>>
rvars == <<argv, args, calls, ret>>
vars == <<uvars, wvars, pc, exc, dvars, bvars, rvars>>

(***************************************************************************)
(* Bounds of the model.                                                    *)
(***************************************************************************)
\* Longest tuple or list drawn as a direct input of union.
MaxLen == 2
\* Depth of nested union calls the interpreter allows before RecursionError
\* (sys.getrecursionlimit() scaled down; the metadata nests four deep).
RecursionLimit == 6
\* The iteration fuse of get_functions_raw, assert c<1E8, scaled down.
Fuse == 6

(***************************************************************************)
(* Python values.                                                          *)
(***************************************************************************)
PyNone == [t |-> "NoneType", v |-> <<>>]
PyStr(s) == [t |-> "str", v |-> s]
PyInt(n) == [t |-> "int", v |-> n]
PyBool(b) == [t |-> "bool", v |-> b]
PyClass(cls) == [t |-> "type", v |-> cls]
PyTuple(s) == [t |-> "tuple", v |-> s]
PyList(s) == [t |-> "list", v |-> s]
\* typing.Optional[int] is PyGeneric("Union", <<"int", "NoneType">>).
PyGeneric(o, a) == [t |-> "_GenericAlias", v |-> [origin |-> o, args |-> a]]
Raise(e) == [t |-> "raise", v |-> e]
IsRaise(x) == x.t = "raise"
\* inspect._empty, the class that marks a missing annotation or default.
Empty == PyClass("_empty")

IsSeq(x) == x.t \in {"tuple", "list"}
IsNum(x) == x.t \in {"bool", "int"}
NumVal(x) == IF x.t = "bool" THEN (IF x.v THEN 1 ELSE 0) ELSE x.v

\* x == y: containers compare element by element, bool is an int (True == 1).
RECURSIVE PyEq(_, _)
PyEq(a, b) ==
    IF IsNum(a) /\ IsNum(b) THEN NumVal(a) = NumVal(b)
    ELSE IF a.t # b.t THEN FALSE
    ELSE IF IsSeq(a)
         THEN /\ Len(a.v) = Len(b.v)
              /\ \A i \in 1..Len(a.v) : PyEq(a.v[i], b.v[i])
    ELSE a.v = b.v

\* hasattr(x, '__len__'): true of a class object whose instances are sized.
HasLenAttr(x) ==
    \/ x.t \in {"str", "tuple", "list"}
    \/ x.t = "type" /\ x.v \in {"str", "tuple", "list", "dict"}

\* len(x) of a sized value; len of a class object raises TypeError.
PyLen(x) == Len(x.v)

\* The k-th item zip(*v1) yields from x: a character of a str is a str.
Item(x, k) == IF x.t = "str" THEN PyStr(<<x.v[k]>>) ELSE x.v[k]

\* type(v1[0])(parts): str(list) is the list's repr, one opaque text here.
Rebuild(x, parts) ==
    IF x.t = "tuple" THEN PyTuple(parts)
    ELSE IF x.t = "list" THEN PyList(parts)
    ELSE PyStr(<<"[...]">>)

(***************************************************************************)
(* function_parser_union.union                                             *)
(***************************************************************************)
\* v1=list(filter(lambda x: x is not None,val))
Known(val) == SelectSeq(val, LAMBDA x : x # PyNone)

\* all(type(x)==t1 for x in v1[1:])
SameTypes(v1) == \A i \in 2..Len(v1) : v1[i].t = v1[1].t

\* A bug that skips the value comparison and keeps the first known value.
AllEqualFirstWins(v1) == TRUE

\* all(x==v1[0] for x in v1[1:])
AllEqual(v1) == \A i \in 2..Len(v1) : PyEq(v1[i], v1[1])

\* all(len(x)==t1 for x in v1[1:])
SameLens(v1) == \A i \in 2..Len(v1) : PyLen(v1[i]) = PyLen(v1[1])

\* The first exception among the parts, in evaluation order, or none.
FirstRaise(parts) ==
    IF \E k \in 1..Len(parts) : IsRaise(parts[k])
    THEN parts[CHOOSE k \in 1..Len(parts) :
                 /\ IsRaise(parts[k])
                 /\ \A j \in 1..(k-1) : ~IsRaise(parts[j])]
    ELSE PyNone

RECURSIVE union(_, _)
union(val, depth) ==
    IF depth > RecursionLimit THEN Raise("RecursionError")
    ELSE LET v1 == Known(val) IN
    IF Len(v1) = 0 THEN PyNone
    ELSE IF Len(v1) = 1 THEN v1[1]
    ELSE IF ~SameTypes(v1) THEN Raise("AssertionError")
    ELSE IF AllEqual(v1) THEN v1[1]
    ELSE IF \E i \in 1..Len(v1) : ~HasLenAttr(v1[i]) THEN Raise("AssertionError")
    ELSE IF v1[1].t = "type" THEN Raise("TypeError")
    ELSE IF ~SameLens(v1) THEN Raise("ValueError")
    ELSE LET parts == [k \in 1..PyLen(v1[1]) |->
                         union([i \in 1..Len(v1) |-> Item(v1[i], k)], depth + 1)]
         IN IF FirstRaise(parts) # PyNone THEN FirstRaise(parts)
            ELSE Rebuild(v1[1], parts)

(***************************************************************************)
(* Text: a str is a sequence of characters.                                *)
(***************************************************************************)
Whitespace == {" ", "\t", "\n"}

\* s.split(sep) for a one-character separator.
RECURSIVE Split(_, _)
Split(s, sep) ==
    IF \A i \in 1..Len(s) : s[i] # sep THEN <<s>>
    ELSE LET k == CHOOSE i \in 1..Len(s) :
                    s[i] = sep /\ \A j \in 1..(i-1) : s[j] # sep
         IN <<SubSeq(s, 1, k-1)>> \o Split(SubSeq(s, k+1, Len(s)), sep)

\* sep.join(parts)
RECURSIVE Join(_, _)
Join(parts, sep) ==
    IF Len(parts) = 0 THEN <<>>
    ELSE IF Len(parts) = 1 THEN parts[1]
    ELSE parts[1] \o <<sep>> \o Join(Tail(parts), sep)

RECURSIVE LStrip(_)
LStrip(s) == IF Len(s) > 0 /\ s[1] \in Whitespace THEN LStrip(Tail(s)) ELSE s
RECURSIVE RStrip(_)
RStrip(s) ==
    IF Len(s) > 0 /\ s[Len(s)] \in Whitespace
    THEN RStrip(SubSeq(s, 1, Len(s)-1)) ELSE s
\* s.strip()
Strip(s) == RStrip(LStrip(s))

\* s.startswith(pre)
StartsWith(s, pre) == Len(pre) <= Len(s) /\ SubSeq(s, 1, Len(pre)) = pre

(***************************************************************************)
(* The functions the extractors read.  A function object is a record       *)
(*   sig    : whether inspect.signature finds a signature                  *)
(*   params : its parameters in declaration order, each with its name, its *)
(*            annotation and its default (inspect._empty when missing)     *)
(*   ret    : its return annotation (inspect._empty when missing)          *)
(*   doc    : its docstring as docutils parses it: whether __doc__ is set, *)
(*            the first paragraph, the remaining text, the sections found  *)
(*            and the (term, definition) items of the Parameters section   *)
(***************************************************************************)
Param(n, a, d) == [name |-> n, ann |-> a, default |-> d]
Entry(t, d) == [term |-> t, definition |-> d]
Doc(h, s, l, secs, es) ==
    [has |-> h, short |-> s, long |-> l, sections |-> secs, entries |-> es]
Func(sg, pars, r, d) == [sig |-> sg, params |-> pars, ret |-> r, doc |-> d]

NameN == <<"n", "a", "m", "e">>
LoudN == <<"l", "o", "u", "d">>
XN == <<"x">>
OptionalInt == PyGeneric("Union", <<"int", "NoneType">>)
ListInt == PyGeneric("list", <<"int">>)
OneX(ann) == <<Param(XN, ann, Empty)>>
DocX(term) == Doc(TRUE, <<"S">>, <<>>, {"parameters"}, <<Entry(term, <<"D">>)>>)

\* The kinds of function the packages under test hold.
Kind(k) ==
    CASE k = "greet" ->
           \* def greet(name: str, loud: bool = False) -> str, types left to
           \* the signature: "name:" and "loud:" in the Parameters section
           Func(TRUE,
                <<Param(NameN, PyClass("str"), Empty),
                  Param(LoudN, PyClass("bool"), PyBool(FALSE))>>,
                PyClass("str"),
                Doc(TRUE, <<"H", "i">>, <<>>, {"parameters"},
                    <<Entry(NameN \o <<":">>, <<"W", "h", "o">>),
                      Entry(LoudN \o <<":">>, <<"U", "p">>)>>))
      [] k = "typed" ->
           \* def f(x: int) -> str documented "x: int"
           Func(TRUE, OneX(PyClass("int")), PyClass("str"),
                DocX(<<"x", ":", " ", "i", "n", "t">>))
      [] k = "noret" ->
           \* def f(x: int) with no return annotation, documented "x:"
           Func(TRUE, OneX(PyClass("int")), Empty, DocX(<<"x", ":">>))
      [] k = "untyped" ->
           \* def f(x) -> str documented "x:": no type from any extractor
           Func(TRUE, OneX(Empty), PyClass("str"), DocX(<<"x", ":">>))
      [] k = "results" ->
           \* a docstring with a Results section
           Func(TRUE, OneX(PyClass("int")), PyClass("str"),
                Doc(TRUE, <<"S">>, <<>>, {"parameters", "results"},
                    <<Entry(<<"x", ":">>, <<"D">>)>>))
      [] k = "nodoc" ->
           \* __doc__ is None
           Func(TRUE, OneX(PyClass("int")), PyClass("str"),
                Doc(FALSE, <<>>, <<>>, {}, <<>>))
      [] k = "builtin" ->
           \* a builtin that exposes no signature
           Func(FALSE, <<>>, Empty, Doc(TRUE, <<"S">>, <<>>, {}, <<>>))
      [] k = "opts" ->
           \* def f(n: Optional[int] = None, k: int = 3, v: bool = True) -> None
           Func(TRUE,
                <<Param(<<"n">>, OptionalInt, PyNone),
                  Param(<<"k">>, PyClass("int"), PyInt(3)),
                  Param(<<"v">>, PyClass("bool"), PyBool(TRUE))>>,
                PyNone,
                Doc(TRUE, <<"S">>, <<"L">>, {}, <<>>))
      [] k = "generic" ->
           \* def f(x: List[int]) -> str
           Func(TRUE, OneX(ListInt), PyClass("str"),
                Doc(TRUE, <<"S">>, <<>>, {}, <<>>))
      [] k = "misnamed" ->
           \* def f(x: int) -> str documented "y:"
           Func(TRUE, OneX(PyClass("int")), PyClass("str"), DocX(<<"y", ":">>))
      [] k = "extra" ->
           \* def f(x: int) -> str documenting two parameters
           Func(TRUE, OneX(PyClass("int")), PyClass("str"),
                Doc(TRUE, <<"S">>, <<>>, {"parameters"},
                    <<Entry(<<"x", ":">>, <<"D">>), Entry(<<"y", ":">>, <<"D">>)>>))
      [] k = "badterm" ->
           \* a Parameters header with two separators, "x:a:b"
           Func(TRUE, OneX(PyClass("int")), PyClass("str"),
                DocX(<<"x", ":", "a", ":", "b">>))

(***************************************************************************)
(* function_parser_base.check                                              *)
(***************************************************************************)
StrOrNone(x) == x.t = "str" \/ x = PyNone

\* One element of ans[2] as line 51 accepts it.
ParamOk(x) ==
    \/ x = PyNone
    \/ /\ x.t = "tuple"
       /\ Len(x.v) = 4
       /\ StrOrNone(x.v[1])
       /\ StrOrNone(x.v[3])
       /\ \/ x.v[4] = PyNone
          \/ /\ x.v[4].t = "tuple"
             /\ Len(x.v[4].v) = 2
             /\ \/ x.v[4].v[1] = PyNone
                \/ /\ x.v[4].v[1].t = "bool"
                   /\ \/ x.v[4].v[2] = PyNone
                      \/ x.v[4].v[1] = PyBool(TRUE)

\* ans[3] as line 55 accepts it.
RetOk(r) ==
    \/ r = PyNone
    \/ /\ r.t = "tuple"
       /\ Len(r.v) = 3
       /\ StrOrNone(r.v[1])
       /\ StrOrNone(r.v[3])
    \/ /\ IsSeq(r)
       /\ \A i \in 1..Len(r.v) :
            \/ r.v[i] = PyNone
            \/ /\ r.v[i].t = "tuple"
               /\ Len(r.v[i].v) \in {3, 4}
               /\ StrOrNone(r.v[i].v[1])
               /\ StrOrNone(r.v[i].v[3])

\* ans[3]==_empty
ReturnUnannotated(r) == PyEq(r, Empty)

\* check(ans, name) on res: the exception it raises, or res.
Check(res) ==
    IF ~IsSeq(res) THEN Raise("TypeError")
    ELSE IF Len(res.v) # 4 THEN Raise("AssertionError")
    ELSE IF ~StrOrNone(res.v[1]) THEN Raise("AssertionError")
    ELSE IF ~StrOrNone(res.v[2]) THEN Raise("AssertionError")
    ELSE IF ~(res.v[3].t = "list" \/ res.v[3] = PyNone) THEN Raise("AssertionError")
    ELSE IF /\ res.v[3] # PyNone
            /\ \E i \in 1..Len(res.v[3].v) : ~ParamOk(res.v[3].v[i])
         THEN Raise("AnnotationFormatError")
    ELSE IF ReturnUnannotated(res.v[4]) THEN Raise("UnAnnotatedError")
    ELSE IF ~IsSeq(res.v[4]) /\ res.v[4] # PyNone THEN Raise("TypeError")
    ELSE IF ~RetOk(res.v[4]) THEN Raise("AnnotationFormatError")
    ELSE res

\* parse(func): _parse, then check.
Checked(r) == IF IsRaise(r) THEN r ELSE Check(r)

(***************************************************************************)
(* function_parser_signature._parse                                        *)
(***************************************************************************)
\* hasattr(y,'default') and y.default!=_empty
HasDefault(y) == ~PyEq(y.default, Empty)

\* A bug that takes a false default (False, 0, None) for a missing one.
OptionalityTruthy(y) ==
    IF HasDefault(y) /\ y.default \notin {PyNone, PyBool(FALSE), PyInt(0)}
    THEN PyTuple(<<PyBool(TRUE), y.default>>)
    ELSE PyTuple(<<PyBool(FALSE), PyNone>>)

\* (True,y.default) if ... else (False,None)
Optionality(y) ==
    IF HasDefault(y) THEN PyTuple(<<PyBool(TRUE), y.default>>)
    ELSE PyTuple(<<PyBool(FALSE), PyNone>>)

\* t3: the return annotation, wrapped unless None, a tuple or a list.
ReturnInfo(r) ==
    IF r = PyNone \/ IsSeq(r) THEN r ELSE PyTuple(<<PyNone, r, PyNone>>)

SigParameters(f) ==
    [i \in 1..Len(f.params) |->
        PyTuple(<<PyStr(f.params[i].name), f.params[i].ann, PyNone,
                  Optionality(f.params[i])>>)]

SigParse(f) ==
    IF ~f.sig THEN Raise("UnAnnotatedError")
    ELSE PyList(<<PyNone, PyNone, PyList(SigParameters(f)), ReturnInfo(f.ret)>>)

(***************************************************************************)
(* function_parser_docstring_numpy._parse                                  *)
(***************************************************************************)
\* A description, None when empty (lines 139 to 145).
TextOrNone(s) == IF Len(Strip(s)) = 0 THEN PyNone ELSE PyStr(Strip(s))

\* One Parameters item: (name, type text or None, description, None).
DocParameter(e) ==
    LET h == Split(Strip(e.term), ":")
        n == Strip(h[1])
        ty == Strip(h[2])
    IN PyTuple(<<PyStr(n), IF Len(ty) > 0 THEN PyStr(ty) ELSE PyNone,
                 PyStr(Strip(e.definition)), PyNone>>)

DocParse(f) ==
    IF ~f.doc.has THEN Raise("TypeError")
    ELSE IF /\ "parameters" \in f.doc.sections
            /\ \E i \in 1..Len(f.doc.entries) :
                 Len(Split(Strip(f.doc.entries[i].term), ":")) # 2
         THEN Raise("AssertionError")
    ELSE IF "results" \in f.doc.sections THEN Raise("NotImplementedError")
    ELSE PyList(<<TextOrNone(f.doc.short), TextOrNone(f.doc.long),
                  IF "parameters" \in f.doc.sections
                  THEN PyList([i \in 1..Len(f.doc.entries) |->
                                  DocParameter(f.doc.entries[i])])
                  ELSE PyNone,
                  PyNone>>)

(***************************************************************************)
(* function_parser_union._parse and parse, over the two extractors         *)
(***************************************************************************)
UnionParse(f) ==
    LET s == Checked(SigParse(f)) IN
    IF IsRaise(s) THEN s
    ELSE LET d == Checked(DocParse(f)) IN
         IF IsRaise(d) THEN d
         ELSE Checked(union(<<s, d>>, 0))

(***************************************************************************)
(* The merge applied to drawn values: inputs of union.                     *)
(***************************************************************************)
\* Before any parse, command line or namespace exists.
NoParse == [key |-> <<>>, func |-> "", out |-> PyNone]
NoArgv == [leaf |-> <<>>, given |-> <<>>]
NoArgs == [ns |-> <<>>, func |-> "", fullname |-> <<>>]
\* Leaves: absent, texts, numbers, booleans, class objects.
Atoms ==
    { PyNone, PyStr(<<>>), PyStr(<<"a">>), PyStr(<<"b">>), PyInt(1), PyInt(2),
      PyBool(TRUE), PyClass("str"), PyClass("int"), PyClass("list") }
\* Leaves that appear inside the drawn tuples and lists.
ElemAtoms == { PyNone, PyStr(<<"a">>), PyStr(<<"b">>), PyInt(1), PyBool(TRUE) }
SeqsOver(S) == UNION { [1..n -> S] : n \in 0..MaxLen }
Flat == { PyTuple(s) : s \in SeqsOver(ElemAtoms) } \cup
        { PyList(s) : s \in SeqsOver(ElemAtoms) }
Nested == { PyTuple(<<x>>) : x \in Flat } \cup
          { PyList(<<PyStr(<<"a">>), PyTuple(q)>>) : q \in SeqsOver(ElemAtoms) }
Values == Atoms \cup Flat \cup Nested

UInit ==
    /\ upc = "in"
    /\ uA \in Values
    /\ uB \in Values
    /\ uAB = PyNone /\ uBA = PyNone /\ uAN = PyNone /\ uNA = PyNone
    /\ uAA = PyNone
    \* no package is walked
    /\ wlinks = {} /\ wkinds = <<>> /\ errskip = <<>>
    /\ pc = "idle" /\ exc = ""
    /\ mods = <<>> /\ mods_done = <<>> /\ ans = <<>> /\ c = 0
    /\ ansd = <<>> /\ pi = 1 /\ last = NoParse /\ ans_f = <<>> /\ ans_m = <<>>
    /\ p = <<>> /\ ps = {} /\ made = <<>> /\ bi = 1
    /\ argv = NoArgv /\ args = NoArgs /\ calls = <<>> /\ ret = PyNone

\* union([A, B]), union([B, A]), union([A, None]), union([None, A]), union([A, A])
UnionApply ==
    /\ upc = "in"
    /\ upc' = "out"
    /\ uAB' = union(<<uA, uB>>, 0)
    /\ uBA' = union(<<uB, uA>>, 0)
    /\ uAN' = union(<<uA, PyNone>>, 0)
    /\ uNA' = union(<<PyNone, uA>>, 0)
    /\ uAA' = union(<<uA, uA>>, 0)
    /\ UNCHANGED <<uA, uB, wvars, pc, exc, dvars, bvars, rvars>>

UNext == UnionApply
SpecUnion == UInit /\ [][UNext]_vars

(***************************************************************************)
(* Insertion-ordered dicts: sequences of [key, val] with unique keys.      *)
(***************************************************************************)
Has(d, k) == \E i \in 1..Len(d) : d[i].key = k
Get(d, k) == d[CHOOSE i \in 1..Len(d) : d[i].key = k].val
Keys(d) == {d[i].key : i \in 1..Len(d)}
\* d[k]=v: a known key keeps its place and takes the new value.
DictSet(d, k, v) ==
    IF Has(d, k)
    THEN [i \in 1..Len(d) |-> IF d[i].key = k THEN [key |-> k, val |-> v] ELSE d[i]]
    ELSE Append(d, [key |-> k, val |-> v])
\* {k:v for ...} over the items in order.
RECURSIVE DictFrom(_)
DictFrom(items) ==
    IF Len(items) = 0 THEN <<>>
    ELSE LET n == Len(items) IN
         DictSet(DictFrom(SubSeq(items, 1, n-1)), items[n].key, items[n].val)

(***************************************************************************)
(* The package under test: the root package p, its subpackage p.a, the     *)
(* module p.a.b, an external module x, and the functions h (of p), f (of   *)
(* p.a), g (of p.a.b) and e (of x).  wlinks says which optional names the  *)
(* module dicts hold:                                                      *)
(*   "ab" p.a holds its module b      "pb" p.a.b is imported in p          *)
(*   "ba" p.a is imported in p.a.b    "ap" p is imported in p.a            *)
(*   "pg" g is imported in p (from .a.b import g)                          *)
(***************************************************************************)
PkgName == <<"p">>
Links == {"pb", "ab", "ba", "ap", "pg"}
ModuleObj(id) == [k |-> "module", id |-> id]
FunctionObj(id) == [k |-> "function", id |-> id]
OtherObj == [k |-> "other", id |-> ""]
Item2(k, o) == [key |-> k, obj |-> o]
Opt(l, e) == IF l \in wlinks THEN <<e>> ELSE <<>>

\* module.__dict__, in insertion order.
ModDict(m) ==
    CASE m = "p" -> <<Item2(<<"h">>, FunctionObj("h")),
                      Item2(<<"_", "h">>, FunctionObj("h")),
                      Item2(<<"a">>, ModuleObj("a"))>>
                    \o Opt("pb", Item2(<<"b">>, ModuleObj("b")))
                    \o Opt("pg", Item2(<<"g">>, FunctionObj("g")))
      [] m = "a" -> <<Item2(<<"f">>, FunctionObj("f")),
                      Item2(<<"e">>, FunctionObj("e")),
                      Item2(<<"x">>, ModuleObj("x"))>>
                    \o Opt("ab", Item2(<<"b">>, ModuleObj("b")))
                    \o Opt("ap", Item2(<<"p">>, ModuleObj("p")))
      [] m = "b" -> <<Item2(<<"g">>, FunctionObj("g")),
                      Item2(<<"v">>, OtherObj)>>
                    \o Opt("ba", Item2(<<"a">>, ModuleObj("a")))
      [] OTHER -> <<>>

\* module.__package__
ModPackage(m) ==
    CASE m = "x" -> <<"x">>
      [] m = "p" -> <<"p">>
      [] OTHER -> <<"p", ".", "a">>
\* module.__doc__, None when the module has no docstring.
ModDoc(m) ==
    CASE m = "p" -> PyStr(<<" ", "P", "\n">>)
      [] m = "b" -> PyStr(<<"B">>)
      [] OTHER -> PyNone
\* function.__module__
FnModule(id) ==
    CASE id = "h" -> <<"p">>
      [] id = "f" -> <<"p", ".", "a">>
      [] id = "g" -> <<"p", ".", "a", ".", "b">>
      [] OTHER -> <<"x">>
\* The function object behind a callable.
Fn(id) == IF id \in DOMAIN wkinds THEN Kind(wkinds[id]) ELSE Kind("greet")

(***************************************************************************)
(* get_functions_raw, called by get_functions_subpkg                       *)
(***************************************************************************)
\* The default filters: lambda name,obj:name[0]!='_'
PublicName(name) == name[1] # "_"
\* get_functions_subpkg's mod_filter.
ModFilter(name, obj) ==
    /\ PublicName(name)
    /\ \/ ModPackage(obj.id) = PkgName
       \/ StartsWith(ModPackage(obj.id), PkgName \o <<".">>)
\* Line 236: callables of a module under the traversal prefix.
FuncAccepted(e, path) ==
    /\ e.obj.k = "function"
    /\ StartsWith(FnModule(e.obj.id), Join(path, "."))
    /\ PublicName(e.key)
\* Line 237
ModAccepted(e) == e.obj.k = "module" /\ ModFilter(e.key, e.obj)

\* A fuse that trips one iteration late.
FuseTrippedLate(n) == ~(n < Fuse + 1)

\* assert c<1E8 fails
FuseTripped(n) == ~(n < Fuse)

\* The exception classes and their bases, as `except errskip` matches them.
Bases(e) ==
    CASE e \in {"UnAnnotatedError", "AnnotationFormatError"} ->
           {e, "TypeError", "Exception"}
      [] e \in {"NotImplementedError", "RecursionError"} ->
           {e, "RuntimeError", "Exception"}
      [] e = "KeyError" -> {e, "LookupError", "Exception"}
      [] OTHER -> {e, "Exception"}

\* A handler that swallows every error.
SkipsAll(e, skip) == TRUE

\* except errskip: pass
Skips(e, skip) == \E i \in 1..Len(skip) : skip[i] \in Bases(e)

Init ==
    /\ wlinks \in SUBSET Links
    /\ wkinds \in [h : {"opts", "typed"},
                   f : {"greet", "typed", "noret", "untyped", "results",
                        "nodoc", "builtin", "opts", "generic", "misnamed",
                        "extra", "badterm"},
                   g : {"greet", "untyped", "nodoc"}]
    /\ errskip \in {<<>>, <<"TypeError">>, <<"AssertionError", "RuntimeError">>}
    /\ pc = "walk" /\ exc = ""
    /\ mods = <<[mod |-> "p", path |-> <<PkgName>>]>>
    /\ mods_done = <<>> /\ ans = <<>> /\ c = 0
    /\ ansd = <<>> /\ pi = 1 /\ last = NoParse /\ ans_f = <<>> /\ ans_m = <<>>
    /\ p = <<>> /\ ps = {} /\ made = <<>> /\ bi = 1
    /\ argv = NoArgv /\ args = NoArgs /\ calls = <<>> /\ ret = PyNone
    /\ upc = "idle" /\ uA = PyNone /\ uB = PyNone
    /\ uAB = PyNone /\ uBA = PyNone /\ uAN = PyNone /\ uNA = PyNone
    /\ uAA = PyNone

\* One iteration of the while loop, lines 230 to 241.
Traverse ==
    /\ pc = "walk"
    /\ Len(mods) > 0
    /\ LET t1 == mods[Len(mods)]
           t2 == ModDict(t1.mod)
           ans_add == SelectSeq(t2, LAMBDA e : FuncAccepted(e, t1.path))
           mod_add == SelectSeq(t2, ModAccepted)
       IN /\ mods_done' = Append(mods_done, t1)
          /\ ans' = ans \o [i \in 1..Len(ans_add) |->
                              [func |-> ans_add[i].obj.id,
                               path |-> Append(t1.path, ans_add[i].key)]]
          /\ mods' = SubSeq(mods, 1, Len(mods) - 1) \o
                     [i \in 1..Len(mod_add) |->
                        [mod |-> mod_add[i].obj.id,
                         path |-> Append(t1.path, mod_add[i].key)]]
    /\ c' = c + 1
    /\ IF FuseTripped(c + 1)
       THEN pc' = "walk_raised" /\ exc' = "AssertionError"
       ELSE pc' = "walk" /\ exc' = exc
    /\ UNCHANGED <<uvars, wvars, ansd, pi, last, ans_f, ans_m, bvars, rvars>>

\* The loop ends; line 242 keys the functions by dotted name.
WalkDone ==
    /\ pc = "walk"
    /\ Len(mods) = 0
    /\ ansd' = DictFrom([i \in 1..Len(ans) |->
                           [key |-> Join(ans[i].path, "."), val |-> ans[i].func]])
    /\ pc' = "parse"
    /\ UNCHANGED <<uvars, wvars, exc, mods, mods_done, ans, c, pi, last, ans_f,
                   ans_m, bvars, rvars>>

\* parser.parse of the next collected function, lines 243 to 251.
ParseStep ==
    /\ pc = "parse"
    /\ pi <= Len(ansd)
    /\ LET x == ansd[pi].key
           y == ansd[pi].val
           r == UnionParse(Fn(y))
       IN /\ last' = [key |-> x, func |-> y, out |-> r]
          /\ IF ~IsRaise(r)
             THEN /\ ans_f' = DictSet(ans_f, x, [func |-> y, meta |-> r])
                  /\ pi' = pi + 1
                  /\ UNCHANGED <<pc, exc>>
             ELSE IF Len(errskip) # 0 /\ Skips(r.v, errskip)
             THEN /\ pi' = pi + 1
                  /\ UNCHANGED <<pc, exc, ans_f>>
             ELSE /\ pc' = "parse_raised"
                  /\ exc' = r.v
                  /\ UNCHANGED <<pi, ans_f>>
    /\ UNCHANGED <<uvars, wvars, mods, mods_done, ans, c, ansd, ans_m, bvars,
                   rvars>>

\* The text recorded for a module: x.__doc__.strip(), '' when undocumented.
ModuleText(m) == IF ModDoc(m) # PyNone THEN PyStr(Strip(ModDoc(m).v)) ELSE PyStr(<<>>)

\* Lines 252 and 253: the module mapping, and the return.
ReturnMaps ==
    /\ pc = "parse"
    /\ pi > Len(ansd)
    /\ ans_m' = DictFrom([i \in 1..Len(mods_done) |->
                            [key |-> Join(mods_done[i].path, "."),
                             val |-> [mod |-> mods_done[i].mod,
                                      doc |-> ModuleText(mods_done[i].mod)]]])
    /\ pc' = "returned"
    /\ UNCHANGED <<uvars, wvars, exc, mods, mods_done, ans, c, ansd, pi, last,
                   ans_f, bvars, rvars>>

(***************************************************************************)
(* totype                                                                  *)
(***************************************************************************)
totype(ty) ==
    IF ty.t = "type" THEN ty
    ELSE IF /\ ty.t = "_GenericAlias"
            /\ ty.v.origin = "Union"
            /\ Len(ty.v.args) = 2
            /\ Cardinality({i \in 1..2 : ty.v.args[i] = "NoneType"}) = 1
         THEN PyClass(ty.v.args[CHOOSE i \in 1..2 : ty.v.args[i] # "NoneType"])
    ELSE Raise("TypeError")

(***************************************************************************)
(* docstringparser: the command nodes p, those with subparsers ps          *)
(***************************************************************************)
\* bool(x) of the values an optionality flag takes.
Truthy(x) == x.t = "bool" /\ x.v

\* add_argument for one parameter, lines 333 to 342; Raise(..) when it fails.
ArgDecl(xj) ==
    IF xj = PyNone \/ xj.v[4] = PyNone \/ xj.v[1] = PyNone THEN Raise("TypeError")
    ELSE IF IsRaise(totype(xj.v[2])) THEN totype(xj.v[2])
    ELSE IF Truthy(xj.v[4].v[1])
         THEN IF PyEq(totype(xj.v[2]), PyClass("bool"))
              THEN [kind |-> "optional", flag |-> <<"-", "-">> \o xj.v[1].v,
                    dest |-> xj.v[1].v, action |-> "store_true",
                    type |-> PyNone, default |-> PyBool(FALSE),
                    help |-> xj.v[3]]
              ELSE [kind |-> "optional", flag |-> <<"-", "-">> \o xj.v[1].v,
                    dest |-> xj.v[1].v, action |-> "store",
                    type |-> totype(xj.v[2]), default |-> xj.v[4].v[2],
                    help |-> xj.v[3]]
    ELSE [kind |-> "positional", flag |-> xj.v[1].v, dest |-> xj.v[1].v,
          action |-> "store", type |-> totype(xj.v[2]), default |-> PyNone,
          help |-> xj.v[3]]

IsDecl(d) == "kind" \in DOMAIN d

\* The declarations made before the first failing one, and that failure.
RECURSIVE ArgDecls(_, _)
ArgDecls(params, done) ==
    IF Len(params) = 0 THEN [decls |-> done, err |-> ""]
    ELSE LET d == ArgDecl(Head(params)) IN
         IF IsDecl(d) THEN ArgDecls(Tail(params), Append(done, d))
         ELSE [decls |-> done, err |-> d.v]

\* t3='.'.join(t2.split('.')[:-1])
ParentOf(t2) ==
    LET q == Split(t2, ".") IN Join(SubSeq(q, 1, Len(q) - 1), ".")

\* t2.rsplit('.',maxsplit=1)[-1]
LastSegment(t2) == LET q == Split(t2, ".") IN q[Len(q)]

\* A presence test that never finds the node.
NodePresentNever(nodes, t2) == FALSE

\* if t2 in p: continue
NodePresent(nodes, t2) == Has(nodes, t2)

\* Lines 310 to 321 from prefix length xj on: the intermediate nodes.
RECURSIVE AddGroups(_, _, _)
AddGroups(st, t1, xj) ==
    IF xj > Len(t1) - 1 \/ st.err # "" THEN st
    ELSE LET t2 == Join(SubSeq(t1, 1, xj), ".") IN
         IF NodePresent(st.p, t2) THEN AddGroups(st, t1, xj + 1)
         ELSE LET t3 == ParentOf(t2) IN
              IF t3 \notin st.ps THEN [st EXCEPT !.err = "AssertionError"]
              ELSE IF ~Has(ans_m, t2) THEN [st EXCEPT !.err = "KeyError"]
              ELSE AddGroups(
                     [p |-> DictSet(st.p, t2,
                               [kind |-> "group", parent |-> t3,
                                name |-> LastSegment(t2),
                                help |-> Get(ans_m, t2).doc,
                                desc |-> <<>>, level |-> xj, args |-> <<>>,
                                func |-> "", fullname |-> <<>>]),
                      ps |-> st.ps \cup {t2},
                      made |-> Append(st.made, t2),
                      err |-> ""],
                     t1, xj + 1)

\* desc: the short text, two line separators, the long text.
Description(p0) ==
    (IF p0.v[1] # PyNone THEN p0.v[1].v \o <<"\n", "\n">> ELSE <<>>) \o
    (IF p0.v[2] # PyNone THEN p0.v[2].v ELSE <<>>)

\* Lines 297 to 302: the root node.
BuildRoot ==
    /\ pc = "returned"
    /\ IF ~Has(ans_m, PkgName)
       THEN /\ pc' = "build_raised" /\ exc' = "KeyError"
            /\ UNCHANGED <<p, ps, made>>
       ELSE /\ p' = <<[key |-> PkgName,
                       val |-> [kind |-> "root", parent |-> <<>>,
                                name |-> Split(PkgName, ".")[1],
                                help |-> PyNone,
                                desc |-> Get(ans_m, PkgName).doc.v,
                                level |-> 1, args |-> <<>>, func |-> "",
                                fullname |-> <<>>]]>>
            /\ ps' = {PkgName}
            /\ made' = <<PkgName>>
            /\ pc' = "build" /\ exc' = exc
    /\ UNCHANGED <<uvars, wvars, dvars, bi, rvars>>

\* One pass of the loop over f, lines 304 to 343.
BuildStep ==
    /\ pc = "build"
    /\ bi <= Len(ans_f)
    /\ LET xi == ans_f[bi].key
           func == ans_f[bi].val.func
           p0 == ans_f[bi].val.meta
           nlv == Len(Split(PkgName, "."))
           t1 == Split(xi, ".")
           shaped == Len(t1) > nlv /\ Join(SubSeq(t1, 1, nlv), ".") = PkgName
           st == IF shaped
                 THEN AddGroups([p |-> p, ps |-> ps, made |-> made, err |-> ""],
                                t1, nlv)
                 ELSE [p |-> p, ps |-> ps, made |-> made, err |-> "AssertionError"]
           t2 == Join(SubSeq(t1, 1, Len(t1) - 1), ".")
           ad == IF p0.v[3] = PyNone
                 THEN [decls |-> <<>>, err |-> "TypeError"]
                 ELSE ArgDecls(p0.v[3].v, <<>>)
           leaf == [kind |-> "leaf", parent |-> t2, name |-> t1[Len(t1)],
                    help |-> p0.v[1], desc |-> Description(p0),
                    level |-> Len(t1), args |-> ad.decls,
                    func |-> IF ad.err = "" THEN func ELSE "",
                    fullname |-> IF ad.err = "" THEN xi ELSE <<>>]
       IN IF st.err # ""
          THEN /\ pc' = "build_raised" /\ exc' = st.err
               /\ p' = st.p /\ ps' = st.ps /\ made' = st.made
               /\ bi' = bi
          ELSE IF t2 \notin st.ps
          THEN /\ pc' = "build_raised" /\ exc' = "KeyError"
               /\ p' = st.p /\ ps' = st.ps /\ made' = st.made
               /\ bi' = bi
          ELSE /\ p' = DictSet(st.p, xi, leaf)
               /\ ps' = st.ps
               /\ made' = Append(st.made, xi)
               /\ IF ad.err # ""
                  THEN pc' = "build_raised" /\ exc' = ad.err /\ bi' = bi
                  ELSE pc' = "build" /\ exc' = exc /\ bi' = bi + 1
    /\ UNCHANGED <<uvars, wvars, dvars, rvars>>

\* Line 344: the parser and the function mapping are returned.
BuildDone ==
    /\ pc = "build"
    /\ bi > Len(ans_f)
    /\ pc' = "built"
    /\ UNCHANGED <<uvars, wvars, exc, dvars, bvars, rvars>>

(***************************************************************************)
(* The command line, as the argument parsing library binds it, and         *)
(* run_args                                                                *)
(***************************************************************************)
Ada == <<"A", "d", "a">>
\* What a command line gives for one argument: nothing, a bare flag, a word.
Absent == <<>>
Present == <<"+">>
Words == {Ada, <<"7">>}

\* type(word), as the library coerces a word of the command line.
Convert(ty, w) ==
    IF ty = PyClass("str") THEN PyStr(w)
    ELSE IF ty = PyClass("int")
         THEN IF w = <<"7">> THEN PyInt(7) ELSE Raise("ValueError")
    ELSE IF ty = PyClass("bool") THEN PyBool(Len(w) > 0)
    ELSE Raise("TypeError")

\* What the command line may give for a declared argument.
Given(d) ==
    IF d.kind = "positional" THEN Words
    ELSE IF d.action = "store_true" THEN {Absent, Present}
    ELSE Words \cup {Absent}

\* The value the namespace holds for a declared argument.
Bound(d, w) ==
    IF d.action = "store_true" THEN (IF w = Absent THEN d.default ELSE PyBool(TRUE))
    ELSE IF w = Absent THEN d.default
    ELSE Convert(d.type, w)

Leaves == {i \in 1..Len(p) : p[i].val.kind = "leaf"}

\* parse_args: a leaf is chosen and its arguments are bound; a word the
\* argument's type rejects ends the process with a usage error.
ParseArgs ==
    /\ pc = "built"
    /\ \E i \in Leaves :
         LET node == p[i].val
             n == Len(node.args)
         IN \E given \in [1..n -> Words \cup {Absent, Present}] :
              /\ \A k \in 1..n : given[k] \in Given(node.args[k])
              /\ argv' = [leaf |-> p[i].key, given |-> given]
              /\ IF \E k \in 1..n : IsRaise(Bound(node.args[k], given[k]))
                 THEN /\ pc' = "exit"
                      /\ args' = args
                 ELSE /\ pc' = "parsed"
                      /\ args' = [ns |-> DictFrom([k \in 1..n |->
                                           [key |-> node.args[k].dest,
                                            val |-> Bound(node.args[k], given[k])]]),
                                  func |-> node.func,
                                  fullname |-> node.fullname]
    /\ UNCHANGED <<uvars, wvars, exc, dvars, bvars, calls, ret>>

\* The callables of the package: each returns the tuple of the values its
\* parameters are bound to, and raises TypeError when the call does not bind.
Invoke(func, a, ka) ==
    LET ps0 == Fn(func).params
        bindable ==
            /\ Len(a) <= Len(ps0)
            /\ \A i \in 1..Len(ka) :
                 \E j \in (Len(a) + 1)..Len(ps0) : ps0[j].name = ka[i].key
            /\ \A j \in (Len(a) + 1)..Len(ps0) :
                 Has(ka, ps0[j].name) \/ HasDefault(ps0[j])
    IN IF ~bindable THEN Raise("TypeError")
       ELSE PyTuple([j \in 1..Len(ps0) |->
                       IF j <= Len(a) THEN a[j]
                       ELSE IF Has(ka, ps0[j].name) THEN Get(ka, ps0[j].name)
                       ELSE ps0[j].default])

\* A bug that passes every parameter positionally.
PositionalArgsAll(params, ns) ==
    [i \in 1..Len(params) |-> Get(ns, params[i].v[1].v)]

\* a=[getattr(args,x[0]) for x in ... if not x[3][0]]
PositionalArgs(params, ns) ==
    LET req == SelectSeq(params, LAMBDA x : ~Truthy(x.v[4].v[1]))
    IN [i \in 1..Len(req) |-> Get(ns, req[i].v[1].v)]

\* ka={x[0]:getattr(args,x[0]) for x in ... if x[3][0]}
KeywordArgs(params, ns) ==
    LET opt == SelectSeq(params, LAMBDA x : Truthy(x.v[4].v[1]))
    IN DictFrom([i \in 1..Len(opt) |->
                    [key |-> opt[i].v[1].v, val |-> Get(ns, opt[i].v[1].v)]])

\* run_args(funcs, args)
RunArgs ==
    /\ pc = "parsed"
    /\ LET params == Get(ans_f, args.fullname).meta.v[3].v
           a == PositionalArgs(params, args.ns)
           ka == KeywordArgs(params, args.ns)
       IN /\ calls' = Append(calls, [func |-> args.func, a |-> a, ka |-> ka])
          /\ ret' = Invoke(args.func, a, ka)
    /\ pc' = "ran"
    /\ UNCHANGED <<uvars, wvars, exc, dvars, bvars, argv, args>>

Next ==
    \/ Traverse
    \/ WalkDone
    \/ ParseStep
    \/ ReturnMaps
    \/ BuildRoot
    \/ BuildStep
    \/ BuildDone
    \/ ParseArgs
    \/ RunArgs

Spec == Init /\ [][Next]_vars

\* The walk reads the module dicts alone: its termination is checked over
\* every choice of wlinks, with one choice of functions and errskip.
LiveInit ==
    /\ Init
    /\ wkinds = [h |-> "opts", f |-> "greet", g |-> "untyped"]
    /\ errskip = <<"TypeError">>
\* The pass is sequential: the loop runs its next iteration while mods is not
\* empty, and is left when it is.
LiveSpec == LiveInit /\ [][Next]_vars /\ WF_vars(Traverse) /\ WF_vars(WalkDone)

(***************************************************************************)
(* Properties of union.                                                    *)
(***************************************************************************)
\* Two outcomes agree: both raise, or both return values that compare equal.
SameOutcome(x, y) ==
    IF IsRaise(x) \/ IsRaise(y) THEN IsRaise(x) /\ IsRaise(y) ELSE PyEq(x, y)

\* The non-absent values a and b disagree somewhere: different types, unequal
\* leaves of one type, or sequences of different lengths, at any depth.
RECURSIVE Disagree(_, _)
Disagree(a, b) ==
    /\ a # PyNone
    /\ b # PyNone
    /\ \/ a.t # b.t
       \/ /\ a.t = b.t
          /\ IsSeq(a)
          /\ \/ Len(a.v) # Len(b.v)
             \/ /\ Len(a.v) = Len(b.v)
                /\ \E i \in 1..Len(a.v) : Disagree(a.v[i], b.v[i])
       \/ /\ a.t = b.t
          /\ ~IsSeq(a)
          /\ a.v # b.v

\* C2: union of a list whose non-absent values disagree raises ValueError and
\* never returns a merged value.
C2_ConflictRaisesValueError ==
    (upc = "out" /\ Disagree(uA, uB)) => uAB = Raise("ValueError")

NativeType(a) == a.t = "type" /\ a # Empty

\* The header "NAME: TYPE" of the i-th Parameters item.
Header(f, i) == Split(Strip(f.doc.entries[i].term), ":")

\* Every parameter and the return are annotated with native types, and the
\* Parameters section gives NAME: TYPE and a description for every parameter.
FullyTypedDocumented(f) ==
    /\ f.sig
    /\ NativeType(f.ret)
    /\ \A i \in 1..Len(f.params) : NativeType(f.params[i].ann)
    /\ f.doc.has
    /\ f.doc.sections = {"parameters"}
    /\ Len(f.doc.entries) = Len(f.params)
    /\ \A i \in 1..Len(f.params) :
         /\ Len(Header(f, i)) = 2
         /\ Strip(Header(f, i)[1]) = f.params[i].name
         /\ Len(Strip(Header(f, i)[2])) > 0
         /\ Len(Strip(f.doc.entries[i].definition)) > 0

\* A merged record in which every parameter has all four fields.
Complete(meta) ==
    /\ meta.t = "list"
    /\ meta.v[3] # PyNone
    /\ \A i \in 1..Len(meta.v[3].v) :
         /\ meta.v[3].v[i] # PyNone
         /\ \A k \in 1..4 : meta.v[3].v[i].v[k] # PyNone

\* C1: for a fully native-typed, fully documented function, the merge of the
\* signature extractor's and the documentation extractor's results raises no
\* conflict and yields every parameter's name, type, description and
\* optionality.
C1_FullyDocumentedMergesComplete ==
    (last.func # "" /\ FullyTypedDocumented(Fn(last.func)))
        => (~IsRaise(last.out) /\ Complete(last.out))

\* The documentation yields no return information: it never does (ans[3]
\* stays None, and a Results section is not parsed).
NoReturnAnywhere(f) == f.sig /\ f.ret = Empty

\* C3: when the return is unannotated in every extractor, parse fails with
\* UnAnnotatedError and no merged record is produced.
C3_UnannotatedReturnFails ==
    (last.func # "" /\ NoReturnAnywhere(Fn(last.func)))
        => last.out = Raise("UnAnnotatedError")

\* The i-th parameter has no type from any extractor.
NoTypeAnywhere(f, i) ==
    /\ f.params[i].ann = Empty
    /\ \/ "parameters" \notin f.doc.sections
       \/ i > Len(f.doc.entries)
       \/ Len(Header(f, i)) < 2
       \/ Len(Strip(Header(f, i)[2])) = 0
HasUntypedParameter(f) == \E i \in 1..Len(f.params) : NoTypeAnywhere(f, i)

\* C4: a function with a parameter that has no type from any extractor never
\* appears in the function mapping discovery returns.
C4_UntypedNeverDiscovered ==
    pc = "returned" =>
        \A i \in 1..Len(ans_f) : ~HasUntypedParameter(Fn(ans_f[i].val.func))

(***************************************************************************)
(* Properties of discovery.                                                *)
(***************************************************************************)
\* The error is an instance of a class the caller listed.
Listed(e) == \E i \in 1..Len(errskip) : errskip[i] \in Bases(e)

\* The module mapping holds one record per visited module path, with the
\* module and its stripped documentation ('' when undocumented).
ModuleMappingOf(done) ==
    /\ Len(ans_m) = Len(done)
    /\ \A i \in 1..Len(done) :
         /\ Has(ans_m, Join(done[i].path, "."))
         /\ Get(ans_m, Join(done[i].path, ".")).mod = done[i].mod
         /\ Get(ans_m, Join(done[i].path, ".")).doc =
              (IF ModDoc(done[i].mod) = PyNone THEN PyStr(<<>>)
               ELSE PyStr(Strip(ModDoc(done[i].mod).v)))

\* C8: with a non-empty errskip, a function whose merge raises an error of a
\* listed class is absent from the returned mapping, every other collected
\* function is present with its callable and metadata, and the module mapping
\* is unaffected; an error that is not of a listed class (any error, when
\* errskip is empty) propagates and no mapping is returned.
C8_SkipListOmitsOnlyListedErrors ==
    /\ pc = "returned" =>
         /\ \A i \in 1..Len(ansd) :
              LET r == UnionParse(Fn(ansd[i].val)) IN
              IF IsRaise(r)
              THEN Len(errskip) > 0 /\ Listed(r.v) /\ ~Has(ans_f, ansd[i].key)
              ELSE /\ Has(ans_f, ansd[i].key)
                   /\ Get(ans_f, ansd[i].key) = [func |-> ansd[i].val, meta |-> r]
         /\ Keys(ans_f) \subseteq Keys(ansd)
         /\ ModuleMappingOf(mods_done)
    /\ pc = "parse_raised" =>
         /\ IsRaise(last.out)
         /\ exc = last.out.v
         /\ Len(errskip) = 0 \/ ~Listed(exc)
         /\ ans_m = <<>>

\* C8 witness: under a non-empty errskip discovery returned a mapping that
\* omits a collected function and holds another.
C8_Witness ==
    /\ pc = "returned"
    /\ Len(errskip) > 0
    /\ \E i \in 1..Len(ansd) : ~Has(ans_f, ansd[i].key)
    /\ Len(ans_f) > 0

\* C10: the traversal loop ends on every module graph, cyclic ones included:
\* the loop goes on only with fewer than the fuse's count of iterations done,
\* and then either the work list is empty and the mappings hold one module
\* record per visited module path, or the fuse aborts the run.
C10_WalkTerminates ==
    /\ [](pc = "walk" => c < Fuse)
    /\ [](pc = "walk_raised" => (c = Fuse /\ exc = "AssertionError"))
    /\ [](pc = "parse" => (Len(mods) = 0 /\ c = Len(mods_done)))
    /\ [](pc = "returned" => ModuleMappingOf(mods_done))
    /\ <>(pc # "walk")

\* C10 witness: two modules import each other and the fuse aborted the walk.
C10_Witness ==
    /\ pc = "walk_raised"
    /\ {"ab", "ba"} \subseteq wlinks
    /\ Len(mods) > 0

(***************************************************************************)
(* Properties of the command tree and the dispatch.                        *)
(***************************************************************************)
\* The declared type with a single None arm removed.
Resolved(a) ==
    IF a.t = "_GenericAlias"
    THEN PyClass(a.v.args[CHOOSE i \in 1..Len(a.v.args) : a.v.args[i] # "NoneType"])
    ELSE a

\* C7: the argument declared for a parameter is decided by its default: with
\* one, optionality is (True, default) and the argument is a '--name' flag (a
\* boolean one a presence flag defaulting to false, any other a typed
\* one-value flag defaulting to the recorded default); without one, it is
\* (False, None) and a required typed positional.
C7_DefaultDecidesArgument ==
    \A n \in 1..Len(p) :
        (p[n].val.kind = "leaf" /\ p[n].val.func # "") =>
            LET ys == Fn(p[n].val.func).params
                ms == Get(ans_f, p[n].key).meta.v[3].v
                ds == p[n].val.args
            IN /\ Len(ds) = Len(ys)
               /\ Len(ms) = Len(ys)
               /\ \A i \in 1..Len(ys) :
                    IF ys[i].default # Empty
                    THEN /\ ms[i].v[4] = PyTuple(<<PyBool(TRUE), ys[i].default>>)
                         /\ ds[i].kind = "optional"
                         /\ ds[i].flag = <<"-", "-">> \o ys[i].name
                         /\ IF Resolved(ys[i].ann) = PyClass("bool")
                            THEN /\ ds[i].action = "store_true"
                                 /\ ds[i].default = PyBool(FALSE)
                            ELSE /\ ds[i].action = "store"
                                 /\ ds[i].type = Resolved(ys[i].ann)
                                 /\ ds[i].default = ys[i].default
                    ELSE /\ ms[i].v[4] = PyTuple(<<PyBool(FALSE), PyNone>>)
                         /\ ds[i].kind = "positional"
                         /\ ds[i].flag = ys[i].name
                         /\ ds[i].action = "store"
                         /\ ds[i].type = Resolved(ys[i].ann)

\* C7 witness: the tree is built and holds the leaf of a function with a
\* boolean parameter whose default is True and the leaf of one with a
\* required parameter.
C7_Witness ==
    /\ pc = "built"
    /\ \E n \in 1..Len(p) :
         /\ p[n].val.func # ""
         /\ \E i \in 1..Len(p[n].val.args) :
              /\ p[n].val.args[i].action = "store_true"
              /\ Fn(p[n].val.func).params[i].default = PyBool(TRUE)
    /\ \E n \in 1..Len(p) :
         /\ p[n].val.func # ""
         /\ \E i \in 1..Len(p[n].val.args) : p[n].val.args[i].kind = "positional"

\* The keys of the nodes the names in f call for.
PathPrefixes(name) ==
    LET t1 == Split(name, ".") IN
    { Join(SubSeq(t1, 1, k), ".") : k \in (Len(Split(PkgName, ".")) + 1)..(Len(t1) - 1) }
GroupKeys == UNION { PathPrefixes(k) : k \in Keys(ans_f) }
ParentKey(key) ==
    LET t1 == Split(key, ".") IN Join(SubSeq(t1, 1, Len(t1) - 1), ".")

\* C9: after the build the command nodes are exactly the root, one
\* intermediate node per proper dotted prefix of a function's name, and one
\* leaf per function; each is created once, under the node of its parent
\* prefix; each leaf carries its function's (_func, _fullname); and the build
\* never fails for lack of a parent node.
C9_TreeMirrorsNames ==
    /\ pc = "build_raised" => exc \notin {"AssertionError", "KeyError"}
    /\ pc \in {"built", "parsed", "exit", "ran"} =>
         /\ Keys(p) = {PkgName} \cup GroupKeys \cup Keys(ans_f)
         /\ Len(made) = Cardinality(Keys(p))
         /\ {made[i] : i \in 1..Len(made)} = Keys(p)
         /\ ps = {PkgName} \cup GroupKeys
         /\ \A n \in 1..Len(p) :
              LET key == p[n].key
                  node == p[n].val
              IN /\ node.kind = (IF key = PkgName THEN "root"
                                 ELSE IF key \in Keys(ans_f) THEN "leaf"
                                 ELSE "group")
                 /\ key # PkgName =>
                      /\ node.parent = ParentKey(key)
                      /\ node.parent \in ps
                      /\ node.name = Split(key, ".")[Len(Split(key, "."))]
                 /\ node.kind = "leaf" =>
                      /\ node.func = Get(ans_f, key).func
                      /\ node.fullname = key

\* C9 witness: a built tree with the leaf p.a.b.g under the intermediate
\* node p.a.b, beside a leaf directly under the root.
C9_Witness ==
    /\ pc = "built"
    /\ \E n \in 1..Len(p) : p[n].val.kind = "leaf" /\ p[n].val.level = 4
    /\ \E n \in 1..Len(p) : p[n].val.kind = "leaf" /\ p[n].val.level = 2
    /\ \E n \in 1..Len(p) : p[n].val.kind = "group" /\ p[n].val.level = 3

\* The metadata of the chosen leaf's parameters.
ChosenParams == Get(ans_f, argv.leaf).meta.v[3].v
Required == SelectSeq(ChosenParams, LAMBDA x : x.v[4].v[1] = PyBool(FALSE))
Optional == SelectSeq(ChosenParams, LAMBDA x : x.v[4].v[1] = PyBool(TRUE))
ChoseGreet == wkinds[Get(ans_f, argv.leaf).func] = "greet"

\* C6: run_args calls the chosen leaf's callable once, positionally with the
\* parsed values of its required parameters in declaration order and by
\* keyword with the parsed values of exactly its optional parameters, and
\* returns what the callable returns; `greet Ada` gives what greet("Ada")
\* gives, and `greet Ada --loud` calls greet("Ada", loud=True).
C6_DispatchBindsAndReturns ==
    pc = "ran" =>
        /\ Len(calls) = 1
        /\ calls[1].func = Get(ans_f, argv.leaf).func
        /\ calls[1].a = [i \in 1..Len(Required) |-> Get(args.ns, Required[i].v[1].v)]
        /\ Keys(calls[1].ka) = {Optional[i].v[1].v : i \in 1..Len(Optional)}
        /\ \A i \in 1..Len(calls[1].ka) :
             calls[1].ka[i].val = Get(args.ns, calls[1].ka[i].key)
        /\ ret = Invoke(calls[1].func, calls[1].a, calls[1].ka)
        /\ (ChoseGreet /\ argv.given = <<Ada, Absent>>) =>
             /\ calls[1].a = <<PyStr(Ada)>>
             /\ ret = Invoke(calls[1].func, <<PyStr(Ada)>>, <<>>)
        /\ (ChoseGreet /\ argv.given = <<Ada, Present>>) =>
             /\ calls[1].a = <<PyStr(Ada)>>
             /\ calls[1].ka = <<[key |-> LoudN, val |-> PyBool(TRUE)]>>

\* C6 witness: `greet Ada --loud` was dispatched.
C6_Witness ==
    /\ pc = "ran"
    /\ ChoseGreet
    /\ argv.given = <<Ada, Present>>
    /\ calls = <<[func |-> Get(ans_f, argv.leaf).func, a |-> <<PyStr(Ada)>>,
                  ka |-> <<[key |-> LoudN, val |-> PyBool(TRUE)]>>]>>

=============================================================================
